---- MODULE Spec2Model ----
(***************************************************************************)
(* find_404: the crawl engine of src/src/find_404/crawler.py.              *)
(*                                                                         *)
(* crawl_site is the orchestrator thread; process_url runs in the threads  *)
(* of a ThreadPoolExecutor. A URL is the record urlparse would return      *)
(* (scheme, netloc as its dot-separated labels, path as its segments       *)
(* between slashes, query, fragment).                                      *)
(* The web is revealed one response per requested URL, the first time the  *)
(* URL is requested, and is fixed from then on.                            *)
(*                                                                         *)
(* Spec is a crawl. NormalizeSpec and DomainSpec call normalize_url and     *)
(* is_same_domain directly on URLs of every shape; CliSpec is a run of      *)
(* main of src/src/find_404/cli.py.                                        *)
(***************************************************************************)
EXTENDS Integers, Sequences, FiniteSets, TLC

VARIABLES
    pc,           \* where crawl_site is: "start", "loop", "wave", "done", "raised"
    start_url,    \* crawl_site's argument (rebound at line 193)
    max_workers,  \* crawl_site's argument
    max_depth,    \* crawl_site's argument; NoDepthLimit stands for None
    base_domain,  \* get_domain(start_url)
    to_process,   \* the frontier: a list of url_info tuples
    seen_urls,    \* dict: normalized URL -> referrer
    results,      \* dict: URL -> data
    futures,      \* the wave's futures (future_to_url), in submission order
    web,          \* the responses the web has given so far: URL -> response
    wave,         \* history: how many waves have been dispatched
    submitted,    \* history: every url_info handed to executor.submit, in order
    started,      \* history: <<url, depth>> of every process_url call begun
    completed,    \* history: <<url, depth>> of every process_url call ended
    calls,        \* the latest direct calls of the URL functions, oldest first
    cli           \* a run of the command line's main: its arguments, the
                  \* report crawl_site gives it, where it is, how it ended

crawl_vars == <<pc, start_url, max_workers, max_depth, base_domain, to_process,
                seen_urls, results, futures, web, wave, submitted, started, completed>>

vars == <<crawl_vars, calls, cli>>

(***************************************************************************)
(* Bounds of the model.                                                    *)
(***************************************************************************)
MaxWorkers == 2
MaxDepthLimit == 2

\* max_depth=None (no depth limit)
NoDepthLimit == -1

(***************************************************************************)
(* URLs.                                                                   *)
(***************************************************************************)
URL(scheme, netloc, path, fragment) ==
    [scheme |-> scheme, netloc |-> netloc, path |-> path, query |-> "",
     fragment |-> fragment]

\* Python's None where a URL may stand (a referrer)
None == URL("None", <<>>, <<>>, "")

Example == <<"example", "com">>
\* a path is path.split("/"): "/a" is <<"", "a">>, "/" is <<"", "">>, "x/y" is
\* <<"x", "y">>; the empty path is <<>>. The paths of the model hold no dot
\* segment and no ";parameters", and none begins with "//".
Root == <<"", "">>
Seed == URL("http", Example, Root, "")
PageA == URL("http", Example, <<"", "a">>, "")
PageB == URL("https", <<"www", "example", "com">>, <<"", "b">>, "")
PageC == URL("http", Example, <<"", "c">>, "")
PageCf == URL("http", Example, <<"", "c">>, "f")
PageX == URL("http", <<"other", "org">>, <<"", "x">>, "")
HrefJs == URL("javascript", <<>>, <<"void(0)">>, "")
HrefTop == URL("", <<>>, <<>>, "top")
HrefBad == URL("http", <<"[bad">>, Root, "")

\* urlparse raises ValueError("Invalid IPv6 URL") on an unbalanced bracket
urlparse_raises(url) == \E i \in 1..Len(url.netloc) : url.netloc[i] = "[bad"

get_domain(url) == <<url.scheme, url.netloc>>

\* urllib.parse.uses_relative, as far as the schemes of the model go
uses_relative == {"", "http", "https", "ftp"}

\* urljoin(base, url) for an absolute url or a fragment-only reference
urljoin(base, url) ==
    IF url.scheme = "" /\ url.netloc = <<>> /\ url.path = <<>> /\ url.query = ""
    THEN IF url.fragment = "" THEN base ELSE [base EXCEPT !.fragment = url.fragment]
    ELSE url

\* urljoin's merge of a relative reference path with the base path: the
\* base's last segment goes unless it is empty, and the empty segments
\* strictly inside the merged list are filtered out
merge_paths(bpath, path) ==
    LET base_parts == IF bpath[Len(bpath)] # "" THEN SubSeq(bpath, 1, Len(bpath) - 1)
                      ELSE bpath
        segments == base_parts \o path
        inner == SelectSeq(SubSeq(segments, 2, Len(segments) - 1), LAMBDA seg : seg # "")
    IN  IF Len(segments) < 2 THEN segments
        ELSE <<segments[1]>> \o inner \o <<segments[Len(segments)]>>

\* urljoin(url, parsed.path + "?" + parsed.query): an empty reference returns
\* url itself; a scheme outside uses_relative returns the reference alone; a
\* reference with a query only keeps the base path; a path that does not
\* begin with "/" is merged with the base path, which is that same path
normalize_url(url) ==
    IF url.path = <<>> /\ url.query = "" THEN url
    ELSE IF url.scheme \notin uses_relative
         THEN [scheme |-> "", netloc |-> <<>>, path |-> url.path,
               query |-> url.query, fragment |-> ""]
         ELSE IF url.path = <<>> \/ url.path[1] = ""
              THEN [url EXCEPT !.fragment = ""]
              ELSE [url EXCEPT !.path = merge_paths(url.path, url.path),
                               !.fragment = ""]

\* the validity test with the host left unchecked
is_valid_url_any_host(url) ==
    IF url.scheme \in {"javascript", "tel", "mailto"} THEN FALSE
    ELSE url.scheme # ""

\* the host compared whole
main_domain_whole(netloc) == netloc

\* netloc.split(".")[-2:]
main_domain(netloc) ==
    IF Len(netloc) <= 2 THEN netloc ELSE SubSeq(netloc, Len(netloc) - 1, Len(netloc))

is_same_domain(url, base) ==
    LET scheme == get_domain(url)[1]
        netloc == get_domain(url)[2]
        schemes_match == (scheme = base[1])
                         \/ (scheme \in {"http", "https"} /\ base[1] \in {"http", "https"})
    IN  schemes_match /\ main_domain(netloc) = main_domain(base[2])

\* url.startswith(("javascript:", "void(", "#", "tel:", "mailto:"))
starts_with_pseudo(url) ==
    \/ url.scheme \in {"javascript", "tel", "mailto"}
    \/ url.scheme = "" /\ url.netloc = <<>> /\ url.path # <<>> /\ url.path[1] = "void(0)"
    \/ url.scheme = "" /\ url.netloc = <<>> /\ url.path = <<>> /\ url.query = ""
       /\ url.fragment # ""

is_valid_url(url) ==
    IF starts_with_pseudo(url) THEN FALSE
    ELSE IF urlparse_raises(url) THEN FALSE
    ELSE url.scheme # "" /\ url.netloc # <<>>

(***************************************************************************)
(* Status codes: an int or one of the strings "invalid", "error".          *)
(***************************************************************************)
IntStatus(n) == <<"int", n>>
StrStatus(s) == <<"str", s>>

(***************************************************************************)
(* What the web does with a request: it never answers, or it answers with  *)
(* a response (the final one, after redirects).                            *)
(***************************************************************************)
Response(status, final, html, hrefs, len) ==
    [exc |-> FALSE, status_code |-> status, url |-> final, html |-> html,
     hrefs |-> hrefs, len |-> len]

NoAnswer ==
    [exc |-> TRUE, status_code |-> 0, url |-> None, html |-> FALSE,
     hrefs |-> <<>>, len |-> 0]

\* requests.get without its timeout argument
NoRequestTimeout == 0

\* requests.get(url, timeout=10, ...): seconds; 0 stands for no timeout
RequestTimeout == 10

\* whether requests.get comes back at all: with a timeout an unanswered
\* request raises requests.Timeout, a RequestException
request_ends(served) == ~served.exc \/ RequestTimeout > 0

\* the anchors a page of the model may hold
HrefLists ==
    { <<PageA, PageB>>, <<PageCf, HrefJs, PageC>>, <<HrefTop, PageX>>,
      <<Seed, HrefBad>> }

\* where a request for url ends after redirects when it ends inside the
\* site, and when it ends outside
InsideFinal(url) == IF is_same_domain(url, get_domain(Seed)) THEN url ELSE PageA
OutsideFinal(url) == IF is_same_domain(url, get_domain(Seed)) THEN PageX ELSE url

Responses(url) ==
    {NoAnswer,
     Response(404, url, TRUE, <<PageA>>, 3),
     Response(200, url, FALSE, <<>>, 9),
     Response(200, OutsideFinal(url), TRUE, <<PageA, PageB>>, 6)}
    \cup {Response(200, InsideFinal(url), TRUE, h, 4 + Len(h)) : h \in HrefLists}

(***************************************************************************)
(* process_url: the fetch worker. url_info is the tuple                    *)
(* <<url, base_domain, should_recurse, referrer, depth>>; a link is the    *)
(* tuple <<normalized_link, recurse, url, depth + 1>>.                     *)
(***************************************************************************)
Data(status_code, size, links, referrer) ==
    [status_code |-> status_code, size |-> size, links |-> links,
     referrer |-> referrer]

\* a call's outcome: the returned pair (url, data), or an exception raised
Returned(url, data) == [raised |-> FALSE, url |-> url, data |-> data]
Raised(url) == [raised |-> TRUE, url |-> url, data |-> Data(StrStatus("error"), 0, <<>>, None)]

\* an internal link emitted at the depth of its page
InternalLinkSameDepth(normalized_link, url, depth) == <<normalized_link, TRUE, url, depth>>

\* the link internal pages emit for an internal target (line 163)
InternalLink(normalized_link, url, depth) == <<normalized_link, TRUE, url, depth + 1>>

\* the link internal pages emit for an external target (line 167)
ExternalLink(normalized_link, url, depth) == <<normalized_link, FALSE, url, depth + 1>>

\* external links emitted from every page
emits_external_from_any(should_recurse) == TRUE

\* line 165: external links are emitted from pages fetched to recurse only
emits_external(should_recurse) == should_recurse

\* the loop over soup.find_all("a", href=True), lines 154-167
RECURSIVE find_links(_, _, _)
find_links(hrefs, final, url_info) ==
    IF hrefs = <<>> THEN <<>>
    ELSE LET url == url_info[1]
             base == url_info[2]
             should_recurse == url_info[3]
             depth == url_info[5]
             next_link == urljoin(final, Head(hrefs))
             normalized_link == normalize_url(next_link)
             rest == find_links(Tail(hrefs), final, url_info)
         IN  IF is_same_domain(normalized_link, base)
             THEN <<InternalLink(normalized_link, url, depth)>> \o rest
             ELSE IF emits_external(should_recurse)
                  THEN <<ExternalLink(normalized_link, url, depth)>> \o rest
                  ELSE rest

\* urljoin(final_url, raw_link) raises on an href urlparse rejects
links_raise(hrefs) == \E i \in 1..Len(hrefs) : urlparse_raises(hrefs[i])

\* an error response recorded with the size of its body
http_error_with_body(response) ==
    Data(IntStatus(response.status_code), response.len, <<>>, None)

\* lines 124-129: what is returned for a status in [400, 600)
http_error(response) == Data(IntStatus(response.status_code), 0, <<>>, None)

\* the scope test made on the URL that was asked for
requested_url(url, response) == url

\* line 138: the URL the scope test and the link resolution go by
final_url(url, response) == response.url

process_url(url_info, response) ==
    LET url == url_info[1]
        base == url_info[2]
        referrer == url_info[4]
    IN  IF ~is_valid_url(url)
        THEN Returned(url, Data(StrStatus("invalid"), 0, <<>>, referrer))
        ELSE IF response.exc
        THEN Returned(url, Data(StrStatus("error"), 0, <<>>, None))
        ELSE IF 400 <= response.status_code /\ response.status_code < 600
        THEN Returned(url, http_error(response))
        ELSE IF ~is_same_domain(final_url(url, response), base)
        THEN Returned(url, Data(IntStatus(response.status_code), response.len, <<>>, referrer))
        ELSE IF ~response.html
        THEN Returned(url, Data(IntStatus(response.status_code), response.len, <<>>, referrer))
        ELSE IF links_raise(response.hrefs)
        THEN Raised(url)
        ELSE Returned(url, Data(IntStatus(response.status_code), response.len,
                                find_links(response.hrefs, final_url(url, response), url_info),
                                referrer))

(***************************************************************************)
(* crawl_site: the orchestrator.                                           *)
(***************************************************************************)
Put(dict, key, value) ==
    [k \in DOMAIN dict \cup {key} |-> IF k = key THEN value ELSE dict[k]]

\* the admission test without the visited set
AdmissibleUnseenOrNot(new_url, new_depth, seen) ==
    max_depth = NoDepthLimit \/ new_depth <= max_depth

\* the admission test with the depth compared one too far
AdmissibleOneDeeper(new_url, new_depth, seen) ==
    new_url \notin DOMAIN seen
    /\ (max_depth = NoDepthLimit \/ new_depth <= max_depth + 1)

\* line 223-225: the admission test of one discovered link
Admissible(new_url, new_depth, seen) ==
    new_url \notin DOMAIN seen
    /\ (max_depth = NoDepthLimit \/ new_depth <= max_depth)

\* the loop with the visited set written before the depth is looked at
RECURSIVE AdmitLinksMarkFirst(_, _, _, _)
AdmitLinksMarkFirst(links, url, seen, frontier) ==
    IF links = <<>> THEN <<seen, frontier>>
    ELSE LET new_url == Head(links)[1]
             new_depth == Head(links)[4]
         IN  IF new_url \in DOMAIN seen
             THEN AdmitLinksMarkFirst(Tail(links), url, seen, frontier)
             ELSE IF max_depth = NoDepthLimit \/ new_depth <= max_depth
             THEN AdmitLinksMarkFirst(Tail(links), url, Put(seen, new_url, url),
                                      Append(frontier,
                                             <<new_url, base_domain, Head(links)[2], url, new_depth>>))
             ELSE AdmitLinksMarkFirst(Tail(links), url, Put(seen, new_url, url), frontier)

\* lines 220-235: the loop over data["links"]; returns <<seen_urls, to_process>>
RECURSIVE AdmitLinks(_, _, _, _)
AdmitLinks(links, url, seen, frontier) ==
    IF links = <<>> THEN <<seen, frontier>>
    ELSE LET new_url == Head(links)[1]
             new_should_recurse == Head(links)[2]
             new_depth == Head(links)[4]
         IN  IF Admissible(new_url, new_depth, seen)
             THEN AdmitLinks(Tail(links), url, Put(seen, new_url, url),
                             Append(frontier,
                                    <<new_url, base_domain, new_should_recurse, url, new_depth>>))
             ELSE AdmitLinks(Tail(links), url, seen, frontier)

\* a future of the wave: its url_info, its state in the executor
\* ("pending", "running", "finished") or "yielded" once as_completed has
\* handed it to the loop, and what the call gave
Future(url_info) == [url_info |-> url_info, state |-> "pending", outcome |-> Raised(None)]

\* a pool with a thread for every task of the wave
PoolSizeOfWave == Len(futures)

\* the threads of the pool: ThreadPoolExecutor(max_workers=max_workers)
PoolSize == max_workers

Running == {i \in 1..Len(futures) : futures[i].state = "running"}

Seeds == {Seed, URL("", Example, Root, ""), URL("", <<>>, <<>>, ""), HrefBad}

\* no run of main
NotRun == [pc |-> "none", args |-> <<>>, report |-> <<>>, outcome |-> <<>>]

Init ==
    /\ pc = "start"
    /\ start_url \in Seeds
    /\ max_workers \in 1..MaxWorkers
    /\ max_depth \in {NoDepthLimit} \cup (0..MaxDepthLimit)
    /\ base_domain = <<"", <<>>>>
    /\ to_process = <<>>
    /\ seen_urls = <<>>
    /\ results = <<>>
    /\ futures = <<>>
    /\ web = <<>>
    /\ wave = 0
    /\ submitted = <<>>
    /\ started = {}
    /\ completed = {}
    /\ calls = <<>>
    /\ cli = NotRun

\* lines 192-193
with_scheme(url) ==
    IF url.scheme \in {"http", "https"} THEN url ELSE [url EXCEPT !.scheme = "http"]

\* lines 190-202, when urlparse accepts the seed
Begin ==
    /\ pc = "start"
    /\ ~urlparse_raises(with_scheme(start_url))
    /\ LET normalized_start == normalize_url(with_scheme(start_url))
       IN  /\ start_url' = with_scheme(start_url)
           /\ base_domain' = get_domain(with_scheme(start_url))
           /\ to_process' = << <<normalized_start, get_domain(with_scheme(start_url)), TRUE, None, 0>> >>
           /\ seen_urls' = Put(<<>>, normalized_start, None)
    /\ results' = <<>>
    /\ pc' = "loop"
    /\ UNCHANGED <<max_workers, max_depth, futures, web, wave, submitted, started, completed>>
    /\ UNCHANGED <<calls, cli>>

\* line 195, when get_domain's urlparse raises: crawl_site raises
BeginRaises ==
    /\ pc = "start"
    /\ urlparse_raises(with_scheme(start_url))
    /\ start_url' = with_scheme(start_url)
    /\ pc' = "raised"
    /\ UNCHANGED <<max_workers, max_depth, base_domain, to_process, seen_urls,
                   results, futures, web, wave, submitted, started, completed>>
    /\ UNCHANGED <<calls, cli>>

\* the wave submitted with the frontier left as it was
DispatchKeepsFrontier ==
    /\ pc = "loop"
    /\ to_process # <<>>
    /\ futures' = [i \in 1..Len(to_process) |-> Future(to_process[i])]
    /\ submitted' = submitted \o to_process
    /\ wave' = wave + 1
    /\ pc' = "wave"
    /\ UNCHANGED <<start_url, max_workers, max_depth, base_domain, to_process,
                   seen_urls, results, web, started, completed>>
    /\ UNCHANGED <<calls, cli>>

\* lines 205-211: the while test holds, every task is submitted, the frontier
\* is emptied
Dispatch ==
    /\ pc = "loop"
    /\ to_process # <<>>
    /\ futures' = [i \in 1..Len(to_process) |-> Future(to_process[i])]
    /\ submitted' = submitted \o to_process
    /\ to_process' = <<>>
    /\ wave' = wave + 1
    /\ pc' = "wave"
    /\ UNCHANGED <<start_url, max_workers, max_depth, base_domain, seen_urls,
                   results, web, started, completed>>
    /\ UNCHANGED <<calls, cli>>

\* a free thread of the pool takes a pending call and runs process_url up to
\* requests.get (line 119); an invalid URL is never requested (line 108)
StartWorker(i) ==
    /\ futures[i].state = "pending"
    /\ Cardinality(Running) < PoolSize
    /\ futures' = [futures EXCEPT ![i].state = "running"]
    /\ started' = started \cup {<<futures[i].url_info[1], futures[i].url_info[5]>>}
    /\ LET url == futures[i].url_info[1]
       IN  IF ~is_valid_url(url) \/ url \in DOMAIN web
           THEN web' = web
           ELSE \E served \in Responses(url) : web' = Put(web, url, served)
    /\ UNCHANGED <<pc, start_url, max_workers, max_depth, base_domain, to_process,
                   seen_urls, results, wave, submitted, completed>>
    /\ UNCHANGED <<calls, cli>>

\* requests.get comes back and process_url runs to its end
FinishWorker(i) ==
    /\ futures[i].state = "running"
    /\ LET url_info == futures[i].url_info
           url == url_info[1]
           served == IF is_valid_url(url) THEN web[url] ELSE NoAnswer
       IN  /\ is_valid_url(url) => request_ends(served)
           /\ futures' = [futures EXCEPT ![i].state = "finished",
                                         ![i].outcome = process_url(url_info, served)]
           /\ completed' = completed \cup {<<url, url_info[5]>>}
    /\ UNCHANGED <<pc, start_url, max_workers, max_depth, base_domain, to_process,
                   seen_urls, results, web, wave, submitted, started>>
    /\ UNCHANGED <<calls, cli>>

\* the loop over as_completed left after its first future
wave_joined_at_first(i) == TRUE

\* the worker's own referrer kept
keep_worker_referrer(data, url) == data

\* line 213: as_completed has yielded every future of the wave once the
\* loop body has run for future i
wave_joined(i) == \A j \in 1..Len(futures) : j = i \/ futures[j].state = "yielded"

\* line 217: the referrer the worker returned is replaced by the visited
\* set's entry
resolve_referrer(data, url) == [data EXCEPT !.referrer = seen_urls[url]]

\* whether the try block of lines 216-235 raises: future.result() re-raises
\* the worker's exception, seen_urls[url] raises KeyError
try_raises(outcome) == outcome.raised \/ outcome.url \notin DOMAIN seen_urls

\* lines 213-235: as_completed yields a finished future and the try block
\* runs to its end
CollectResult(i) ==
    /\ pc = "wave"
    /\ futures[i].state = "finished"
    /\ ~try_raises(futures[i].outcome)
    /\ LET url == futures[i].outcome.url
           data == resolve_referrer(futures[i].outcome.data, url)
           admitted == AdmitLinks(data.links, url, seen_urls, to_process)
       IN  /\ results' = Put(results, url, data)
           /\ seen_urls' = admitted[1]
           /\ to_process' = admitted[2]
    /\ futures' = [futures EXCEPT ![i].state = "yielded"]
    /\ pc' = IF wave_joined(i) THEN "loop" ELSE "wave"
    /\ UNCHANGED <<start_url, max_workers, max_depth, base_domain, web, wave,
                   submitted, started, completed>>
    /\ UNCHANGED <<calls, cli>>

\* the try block without its except: the exception leaves crawl_site
CollectUncaught(i) ==
    /\ pc = "wave"
    /\ futures[i].state = "finished"
    /\ try_raises(futures[i].outcome)
    /\ futures' = [futures EXCEPT ![i].state = "yielded"]
    /\ pc' = "raised"
    /\ UNCHANGED <<start_url, max_workers, max_depth, base_domain, to_process,
                   seen_urls, results, web, wave, submitted, started, completed>>
    /\ UNCHANGED <<calls, cli>>

\* lines 213-216, 237-243: the try block raises and the except block records
\* the URL as an error
CollectException(i) ==
    /\ pc = "wave"
    /\ futures[i].state = "finished"
    /\ try_raises(futures[i].outcome)
    /\ LET url == futures[i].url_info[1]
       IN  results' = Put(results, url,
                          Data(StrStatus("error"), 0, <<>>,
                               IF url \in DOMAIN seen_urls THEN seen_urls[url] ELSE None))
    /\ futures' = [futures EXCEPT ![i].state = "yielded"]
    /\ pc' = IF wave_joined(i) THEN "loop" ELSE "wave"
    /\ UNCHANGED <<start_url, max_workers, max_depth, base_domain, to_process,
                   seen_urls, web, wave, submitted, started, completed>>
    /\ UNCHANGED <<calls, cli>>

\* lines 205, 245-246: the while test fails, the executor is shut down, results
\* are returned
Return ==
    /\ pc = "loop"
    /\ to_process = <<>>
    /\ pc' = "done"
    /\ UNCHANGED <<start_url, max_workers, max_depth, base_domain, to_process,
                   seen_urls, results, futures, web, wave, submitted, started, completed>>
    /\ UNCHANGED <<calls, cli>>

Next ==
    \/ Begin
    \/ BeginRaises
    \/ Dispatch
    \/ \E i \in 1..Len(futures) : StartWorker(i)
    \/ \E i \in 1..Len(futures) : FinishWorker(i)
    \/ \E i \in 1..Len(futures) : CollectResult(i)
    \/ \E i \in 1..Len(futures) : CollectException(i)
    \/ Return

Spec == Init /\ [][Next]_vars

\* the orchestrator thread and the pool's threads keep running, and every
\* requests.get returns or times out (timeout=10)
FairSpec == Spec /\ WF_vars(Next)

(***************************************************************************)
(* The URL functions called directly.                                      *)
(***************************************************************************)
\* no crawl
CrawlNotRun ==
    /\ pc = "none"
    /\ start_url = Seed
    /\ max_workers = 1
    /\ max_depth = NoDepthLimit
    /\ base_domain = <<"", <<>>>>
    /\ to_process = <<>>
    /\ seen_urls = <<>>
    /\ results = <<>>
    /\ futures = <<>>
    /\ web = <<>>
    /\ wave = 0
    /\ submitted = <<>>
    /\ started = {}
    /\ completed = {}

Call(fn, arg, ret) == [fn |-> fn, arg |-> arg, ret |-> ret]

\* the log with one more call, its two latest calls kept
Logged(call) == IF calls = <<>> THEN <<call>> ELSE <<calls[Len(calls)], call>>

\* the URLs normalize_url is called with: what urlparse can return for a
\* seed, for an href joined to its page (urljoin returns an href with a
\* scheme of its own as it is) and for a relative reference
NormalizeInputs ==
    {[scheme |-> "http", netloc |-> Example, path |-> p, query |-> q, fragment |-> f] :
        p \in {<<>>, Root, <<"", "a">>}, q \in {"", "q=1"}, f \in {"", "x", "y"}}
    \cup {[scheme |-> sp[1], netloc |-> <<>>, path |-> sp[2], query |-> "", fragment |-> f] :
        sp \in {<<"data", <<"text", "html,abc">>>>, <<"mailto", <<"a@example.com">>>>,
                <<"javascript", <<"void(0)">>>>},
        f \in {"", "x", "y"}}
    \cup {[scheme |-> "", netloc |-> <<>>, path |-> p, query |-> q, fragment |-> f] :
        p \in {<<>>, <<"", "a">>, <<"a">>, <<"a", "b">>, <<"a", "">>},
        q \in {"", "q=1"}, f \in {"", "x", "y"}}

NormalizeInit == CrawlNotRun /\ calls = <<>> /\ cli = NotRun

\* normalize_url(url) for a URL from outside
NormalizeCall ==
    /\ \E url \in NormalizeInputs :
           calls' = Logged(Call("normalize_url", url, normalize_url(url)))
    /\ UNCHANGED <<crawl_vars, cli>>

\* normalize_url applied to what normalize_url has just returned for a URL
\* from outside
NormalizeAgain ==
    /\ calls # <<>>
    /\ calls[Len(calls)].arg \in NormalizeInputs
    /\ LET url == calls[Len(calls)].ret
       IN  calls' = Logged(Call("normalize_url", url, normalize_url(url)))
    /\ UNCHANGED <<crawl_vars, cli>>

NormalizeNext == NormalizeCall \/ NormalizeAgain

NormalizeSpec == NormalizeInit /\ [][NormalizeNext]_vars

\* the hosts and schemes is_same_domain is called with
DomainHosts ==
    {<<>>, <<"com">>, Example, <<"www", "example", "com">>,
     <<"a", "www", "example", "com">>, <<"other", "org">>, <<"example", "org">>,
     <<"other", "com">>}

DomainSchemes == {"http", "https", "ftp", ""}

DomainURLs ==
    {[scheme |-> sc, netloc |-> h, path |-> pqf[1], query |-> pqf[2], fragment |-> pqf[3]] :
        sc \in DomainSchemes, h \in DomainHosts,
        pqf \in {<<Root, "", "">>, <<<<"", "a">>, "q=1", "f">>}}

DomainInit == CrawlNotRun /\ calls = <<>> /\ cli = NotRun

\* one call is_same_domain(url, base_domain), base_domain the get_domain of
\* a URL
SameDomainCall ==
    /\ calls = <<>>
    /\ \E url \in DomainURLs, base \in DomainURLs :
           calls' = <<Call("is_same_domain", <<url, get_domain(base)>>,
                           is_same_domain(url, get_domain(base)))>>
    /\ UNCHANGED <<crawl_vars, cli>>

DomainNext == SameDomainCall

DomainSpec == DomainInit /\ [][DomainNext]_vars

(***************************************************************************)
(* main of cli.py: the command line.                                       *)
(***************************************************************************)
\* --max-size left out: default=None
NoMaxSize == -1

\* parser.parse_args(): the Namespace holds one attribute per argument, named
\* after it: URL for the positional "URL", max_size for --max-size (the
\* arguments that only shape the output are left out)
Namespace(url, max_size) == [URL |-> url, max_size |-> max_size]

hasattr(args, name) == name \in DOMAIN args

\* how main ends: it returns an exit status or an exception leaves it
MainReturns(status) == [raised |-> "", status |-> status]
MainRaises(exception) == [raised |-> exception, status |-> 0]

\* bool(args.max_size): None and 0 are false
truthy(max_size) == max_size # NoMaxSize /\ max_size # 0

\* crawler.py line 76 run on a str: "base_scheme, base_netloc = base_domain"
\* takes a str character by character, so only a str of exactly two
\* characters unpacks; after line 82 args.url starts with "http://" or
\* "https://" and is longer
str_unpacks(base) == FALSE

\* lines 117-140: the loop over the report and the exit status; line 127
\* hands is_same_domain the str args.url where it takes a (scheme, netloc)
\* pair, and "and" calls it only for a URL over a given limit
check_report(report, max_size, url) ==
    LET has_errors == \E u \in DOMAIN report :
                          /\ report[u].status_code[1] = "int"
                          /\ 400 <= report[u].status_code[2]
                          /\ report[u].status_code[2] < 600
        oversized == {u \in DOMAIN report : truthy(max_size) /\ report[u].size > max_size}
        size_exceeded == \E u \in oversized : is_same_domain(u, get_domain(url))
    IN  IF oversized # {} /\ ~str_unpacks(url) THEN MainRaises("ValueError")
        ELSE IF has_errors \/ size_exceeded THEN MainReturns(1)
        ELSE MainReturns(0)

\* lines 62-140 with arguments on the command line: line 81 reads args.url
main(args, report) ==
    IF ~hasattr(args, "url") THEN MainRaises("AttributeError")
    ELSE check_report(report, args.max_size, with_scheme(args.url))

\* what crawl_site may hand main: the seed's outcome and up to two more
ReportURLs == {PageA, PageX}

ReportInfos ==
    {Data(IntStatus(200), 6, <<>>, None), Data(IntStatus(404), 0, <<>>, None),
     Data(StrStatus("error"), 0, <<>>, None)}

Reports == UNION {[S \cup {Seed} -> ReportInfos] : S \in SUBSET ReportURLs}

MaxSizes == {NoMaxSize, 0, 3, 9}

CliInit ==
    /\ CrawlNotRun
    /\ calls = <<>>
    /\ \E url \in {Seed, URL("", Example, Root, "")}, max_size \in MaxSizes,
          report \in Reports :
           cli = [pc |-> "start", args |-> Namespace(url, max_size),
                  report |-> report, outcome |-> <<>>]

\* one run of main, from parse_args to its return or its exception
Main ==
    /\ cli.pc = "start"
    /\ cli' = [cli EXCEPT !.pc = "ended", !.outcome = main(cli.args, cli.report)]
    /\ UNCHANGED <<crawl_vars, calls>>

CliNext == Main

CliSpec == CliInit /\ [][CliNext]_vars

(***************************************************************************)
(* Properties.                                                             *)
(***************************************************************************)
SubmittedURLs == {submitted[i][1] : i \in 1..Len(submitted)}

\* the url_info a URL was submitted with
TaskOf(url) == submitted[CHOOSE i \in 1..Len(submitted) : submitted[i][1] = url]

LinkTargets(data) == {data.links[k][1] : k \in 1..Len(data.links)}

\* C1: every normalized URL is handed to process_url at most once, and when
\* crawl_site returns the keys of the result mapping are exactly the URLs
\* submitted, one key each.
C1_AtMostOnce ==
    /\ \A i, j \in 1..Len(submitted) : submitted[i][1] = submitted[j][1] => i = j
    /\ \A t \in started : \A u \in started : t[1] = u[1] => t = u
    /\ pc = "done" => DOMAIN results = SubmittedURLs

\* C1 witness: two pages fetched in the same wave both linked to a URL, and
\* the crawl has returned
C1_Witness ==
    /\ pc = "done"
    /\ \E p, q, u \in DOMAIN results :
          /\ p # q
          /\ TaskOf(p)[5] = TaskOf(q)[5]
          /\ u \in LinkTargets(results[p]) \cap LinkTargets(results[q])
          /\ TaskOf(u)[5] = TaskOf(p)[5] + 1

\* C2: a task with recurse = false returns no links and no URL is admitted
\* with it as referrer.
C2_NonRecursingEmitsNothing ==
    \A i \in 1..Len(submitted) :
        submitted[i][3] = FALSE =>
            /\ submitted[i][1] \in DOMAIN results
                  => results[submitted[i][1]].links = <<>>
            /\ \A v \in DOMAIN seen_urls : seen_urls[v] # submitted[i][1]

\* C3: with max_depth = d every task scheduled has depth <= d, every key of
\* the result mapping is such a task's URL, and with max_depth = 0 the
\* result mapping holds the seed alone.
C3_DepthBound ==
    /\ DOMAIN results \subseteq SubmittedURLs
    /\ max_depth # NoDepthLimit =>
          /\ \A i \in 1..Len(submitted) : submitted[i][5] <= max_depth
          /\ \A i \in 1..Len(to_process) : to_process[i][5] <= max_depth
    /\ (max_depth = 0 /\ pc = "done") =>
          DOMAIN results = {normalize_url(start_url)}

\* C3 witness: the crawl returned under max_depth = 0 although the seed's
\* page linked to pages of the site
C3_Witness ==
    /\ pc = "done"
    /\ max_depth = 0
    /\ \E u \in DOMAIN results :
          \E k \in 1..Len(results[u].links) :
              /\ results[u].links[k][2] = TRUE
              /\ results[u].links[k][1] \notin DOMAIN seen_urls

\* whether the call for url raised out of process_url
CallRaised(url) ==
    /\ is_valid_url(url)
    /\ url \in DOMAIN web
    /\ process_url(TaskOf(url), web[url]).raised

\* whether a link was turned away for its depth
TooDeep(link) == max_depth # NoDepthLimit /\ link[4] > max_depth

\* C4: an exception out of a worker call does not abort the crawl: the URL
\* is recorded as "error" with size 0, every other task of the wave has its
\* own outcome recorded and its links admitted, and the crawl returns only
\* when every admitted URL has been processed.
C4_ErrorIsolation ==
    /\ pc = "raised" => wave = 0
    /\ \A i \in 1..Len(futures) :
          futures[i].state = "yielded" =>
              LET url == futures[i].url_info[1]
                  outcome == futures[i].outcome
              IN  /\ url \in DOMAIN results
                  /\ outcome.raised =>
                        /\ results[url].status_code = StrStatus("error")
                        /\ results[url].size = 0
                  /\ ~outcome.raised =>
                        /\ results[url].status_code = outcome.data.status_code
                        /\ results[url].size = outcome.data.size
                        /\ results[url].links = outcome.data.links
                        /\ \A k \in 1..Len(outcome.data.links) :
                              \/ outcome.data.links[k][1] \in DOMAIN seen_urls
                              \/ TooDeep(outcome.data.links[k])
    /\ pc = "done" => /\ to_process = <<>>
                      /\ DOMAIN seen_urls \subseteq DOMAIN results

\* C4 witness: one call of a wave raised, another call of the same wave
\* returned a link that was admitted and processed in a later wave
C4_Witness ==
    /\ pc = "done"
    /\ \E u, v, w \in DOMAIN results :
          /\ u # v
          /\ TaskOf(u)[5] = TaskOf(v)[5]
          /\ CallRaised(u)
          /\ results[u].status_code = StrStatus("error")
          /\ seen_urls[w] = v
          /\ TaskOf(w)[5] = TaskOf(v)[5] + 1

\* C5: the k-th wave (counted from 0) holds tasks of depth k only, the
\* frontier being filled holds the next depth, and no call of a depth begins
\* before every call of the smaller depths has ended.
C5_DepthAlignedWaves ==
    /\ \A i \in 1..Len(futures) : futures[i].url_info[5] = wave - 1
    /\ \A i \in 1..Len(to_process) : to_process[i][5] = wave
    /\ \A s \in started :
          \A i \in 1..Len(submitted) :
              submitted[i][5] < s[2] => <<submitted[i][1], submitted[i][5]>> \in completed

\* C5 witness: in a wave after the first, one call has ended and its links
\* wait in the frontier while another call of the wave is still running
C5_Witness ==
    /\ wave >= 2
    /\ to_process # <<>>
    /\ \E i, j \in 1..Len(futures) :
          /\ futures[i].state = "running"
          /\ futures[j].state = "yielded"

\* C6: when crawl_site returns, the visited set and the result mapping have
\* the same keys.
C6_SameKeysAtReturn ==
    pc = "done" => DOMAIN seen_urls = DOMAIN results

\* C6 witness: the crawl returned after several waves, with a link turned
\* away for its depth and a URL recorded as an error
C6_Witness ==
    /\ pc = "done"
    /\ wave >= 3
    /\ \E u \in DOMAIN results : \E k \in 1..Len(results[u].links) :
          /\ TooDeep(results[u].links[k])
          /\ results[u].links[k][1] \notin DOMAIN seen_urls
    /\ \E u \in DOMAIN results : results[u].status_code = StrStatus("error")

\* C7: with fair scheduling, crawl_site comes to its end, with or without a
\* depth limit.
C7_Terminates == <>(pc \in {"done", "raised"})

\* C7 witness: the crawl returned without a depth limit on a link graph with
\* a cycle through two pages
C7_Witness ==
    /\ pc = "done"
    /\ max_depth = NoDepthLimit
    /\ \E u, v \in DOMAIN results :
          /\ u # v
          /\ v \in LinkTargets(results[u])
          /\ u \in LinkTargets(results[v])

\* C8: the referrer recorded for a key is the visited set's entry, which is
\* the referrer the URL was admitted with: none for the seed, and otherwise
\* a page fetched in the wave before, whose result links to the key, whatever
\* the key's own status.
C8_ReferrerFromVisitedSet ==
    /\ \A u \in DOMAIN results :
          /\ u \in DOMAIN seen_urls
          /\ results[u].referrer = seen_urls[u]
    /\ \A i \in 1..Len(submitted) : seen_urls[submitted[i][1]] = submitted[i][4]
    /\ \A i \in 1..Len(to_process) : seen_urls[to_process[i][1]] = to_process[i][4]
    /\ \A u \in DOMAIN seen_urls :
          IF u = normalize_url(start_url)
          THEN seen_urls[u] = None
          ELSE /\ seen_urls[u] \in DOMAIN results
               /\ u \in LinkTargets(results[seen_urls[u]])
               /\ u \in SubmittedURLs =>
                     TaskOf(seen_urls[u])[5] = TaskOf(u)[5] - 1

\* C8 witness: a page answered 404, for which the worker returns no
\* referrer, and is recorded with the seed as its referrer
C8_Witness ==
    \E u \in DOMAIN results :
        /\ results[u].status_code = IntStatus(404)
        /\ results[u].referrer = normalize_url(start_url)
        /\ futures # <<>>
        /\ \E i \in 1..Len(futures) :
              /\ futures[i].url_info[1] = u
              /\ futures[i].outcome.data.referrer = None

\* C9: never more than max_workers calls of process_url are running.
C9_PoolBound == Cardinality(Running) <= max_workers

\* C9 witness: a wave larger than the pool, with every thread busy and a
\* task waiting
C9_Witness ==
    /\ Len(futures) > max_workers
    /\ Cardinality(Running) = max_workers
    /\ \E i \in 1..Len(futures) : futures[i].state = "pending"

\* the scheme default of line 193 applied to the seed
SeedURL == with_scheme(start_url)

\* C10, as stated: a seed that is not a valid URL makes crawl_site fail
\* before any wave, and no result mapping is returned.
C10_InvalidSeedFails ==
    (urlparse_raises(SeedURL) \/ SeedURL.netloc = <<>>)
        => (wave = 0 /\ pc # "done")

\* C10, amended: a seed urlparse rejects makes crawl_site raise before any
\* wave; a seed that parses but has no host is not fatal: one wave runs, no
\* request is made, and the mapping returned holds the seed alone, with
\* status "invalid", size 0 and no referrer; a seed whose request is never
\* answered is not fatal either: the mapping returned holds the seed alone,
\* with status "error" and size 0.
C10_UnparseableSeedFails ==
    /\ urlparse_raises(SeedURL) =>
          /\ pc \in {"start", "raised"}
          /\ wave = 0
          /\ results = <<>>
    /\ pc = "raised" => urlparse_raises(SeedURL)
    /\ (~urlparse_raises(SeedURL) /\ SeedURL.netloc = <<>>) =>
          /\ web = <<>>
          /\ wave <= 1
          /\ pc = "done" =>
                /\ wave = 1
                /\ DOMAIN results = {normalize_url(SeedURL)}
                /\ results[normalize_url(SeedURL)]
                      = Data(StrStatus("invalid"), 0, <<>>, None)
    /\ (/\ pc = "done"
        /\ normalize_url(SeedURL) \in DOMAIN web
        /\ web[normalize_url(SeedURL)].exc) =>
          /\ wave = 1
          /\ DOMAIN results = {normalize_url(SeedURL)}
          /\ results[normalize_url(SeedURL)]
                = Data(StrStatus("error"), 0, <<>>, None)

\* C10 witness: crawl_site has returned a mapping for a seed without a host
C10_Witness ==
    /\ pc = "done"
    /\ SeedURL.netloc = <<>>
    /\ results # <<>>

\* C11: two URLs that differ only in their fragment, a bare host followed by
\* a fragment included, get the same normalize_url, and it has no fragment
\* and the path and query of the URL it was called with.
OnlyFragmentDiffers(u, v) == [u EXCEPT !.fragment = v.fragment] = v

C11_FragmentsCollapse ==
    \A i, j \in 1..Len(calls) :
        (/\ calls[i].arg \in NormalizeInputs
         /\ calls[j].arg \in NormalizeInputs
         /\ OnlyFragmentDiffers(calls[i].arg, calls[j].arg))
        => /\ calls[i].ret = calls[j].ret
           /\ calls[i].ret.fragment = ""
           /\ calls[i].ret.path = calls[i].arg.path
           /\ calls[i].ret.query = calls[i].arg.query

\* C12: normalize_url is idempotent: called with what it returned for a URL,
\* it returns its argument.
C12_Idempotent ==
    \A i \in 1..Len(calls) :
        (i > 1 /\ calls[i].arg = calls[i - 1].ret) => calls[i].ret = calls[i].arg

\* C13: is_same_domain(url, base) is true exactly when the scheme classes
\* match (http and https are one class, any other scheme is a class of its
\* own) and the last two labels of the two hosts are equal (a host of two or
\* fewer labels is taken whole); the path, query, fragment and the labels
\* further left play no part.
SchemeClass(scheme) == IF scheme \in {"http", "https"} THEN "web" ELSE scheme

LastLabels(host, n) == [k \in 1..n |-> host[Len(host) - n + k]]

RegistrableDomain(host) == LastLabels(host, IF Len(host) < 2 THEN Len(host) ELSE 2)

IsFailure(status) ==
    \/ status[1] = "str"
    \/ status[1] = "int" /\ 400 <= status[2] /\ status[2] < 600

\* whether any URL was admitted with url as its referrer
Referred(url) == \E v \in DOMAIN seen_urls : seen_urls[v] = url

\* C14: an outcome whose status is "invalid", "error" or a code in
\* [400, 600) has size 0 and brings no link into the frontier; a URL that
\* fails is_valid_url is recorded as "invalid" and never requested; every
\* URL recorded has exactly the one status its call came to: "invalid",
\* "error", or the code of the response.
C14_FailuresAreEmpty ==
    /\ \A u \in DOMAIN web : is_valid_url(u)
    /\ \A u \in DOMAIN results :
          /\ IsFailure(results[u].status_code) =>
                /\ results[u].size = 0
                /\ results[u].links = <<>>
                /\ ~Referred(u)
          /\ results[u].status_code = StrStatus("invalid") <=> ~is_valid_url(u)
          /\ is_valid_url(u) =>
                /\ u \in DOMAIN web
                /\ results[u].status_code = StrStatus("error")
                      <=> (web[u].exc \/ CallRaised(u))
                /\ results[u].status_code[1] = "int"
                      => results[u].status_code[2] = web[u].status_code

\* C14 witness: the crawl returned with an invalid URL, a request that never
\* came back and a 404 page among its results, the 404 having a body that
\* holds links
C14_Witness ==
    /\ pc = "done"
    /\ \E u, v, w \in DOMAIN results :
          /\ results[u].status_code = StrStatus("invalid")
          /\ results[v].status_code = StrStatus("error") /\ web[v].exc
          /\ results[w].status_code = IntStatus(404)
          /\ web[w].len > 0
          /\ web[w].hrefs # <<>>

\* whether the request for url came back with a success that ended outside
\* the base domain
EndedOutside(url) ==
    /\ is_valid_url(url)
    /\ url \in DOMAIN web
    /\ ~web[url].exc
    /\ ~(400 <= web[url].status_code /\ web[url].status_code < 600)
    /\ ~is_same_domain(web[url].url, base_domain)

\* C15: a successful fetch that ends on a final URL outside the base domain
\* is recorded under the URL asked for, with the status and body size that
\* were fetched, and no link comes from it; when it is the seed, crawl_site
\* returns after the first wave a mapping with the seed alone.
C15_OutOfScopeRedirect ==
    /\ \A u \in DOMAIN results :
          EndedOutside(u) =>
              /\ results[u].status_code = IntStatus(web[u].status_code)
              /\ results[u].size = web[u].len
              /\ results[u].links = <<>>
              /\ ~Referred(u)
    /\ (pc = "done" /\ EndedOutside(normalize_url(start_url))) =>
          /\ wave = 1
          /\ DOMAIN results = {normalize_url(start_url)}

\* C15 witness: the seed was redirected to another site, to an HTML page
\* with links, and the crawl has returned
C15_Witness ==
    /\ pc = "done"
    /\ EndedOutside(normalize_url(start_url))
    /\ web[normalize_url(start_url)].url # normalize_url(start_url)
    /\ web[normalize_url(start_url)].html
    /\ web[normalize_url(start_url)].hrefs # <<>>
    /\ results[normalize_url(start_url)].size > 0

\* C16: the crawl goes at most one hop past the site: a task with
\* recurse = false was emitted by a task with recurse = true, a key of the
\* results outside the seed's domain has a referrer inside it, and no URL
\* outside the domain is admitted from a page fetched with recurse = false.
C16_OneHopPastBoundary ==
    /\ \A i \in 1..Len(submitted) :
          submitted[i][3] = FALSE =>
              /\ submitted[i][4] \in SubmittedURLs
              /\ TaskOf(submitted[i][4])[3] = TRUE
    /\ \A u \in DOMAIN results :
          ~is_same_domain(u, base_domain) =>
              /\ results[u].referrer # None
              /\ is_same_domain(results[u].referrer, base_domain)
    /\ \A v \in DOMAIN seen_urls :
          (~is_same_domain(v, base_domain) /\ seen_urls[v] \in SubmittedURLs)
              => TaskOf(seen_urls[v])[3] = TRUE

\* C16 witness: a page outside the site, fetched with recurse = false, was
\* redirected into the site to an HTML page holding a link that leads
\* outside, and that link's URL was never admitted
C16_Witness ==
    /\ pc = "done"
    /\ \E p \in DOMAIN results :
          /\ TaskOf(p)[3] = FALSE
          /\ is_valid_url(p)
          /\ ~web[p].exc /\ web[p].status_code = 200 /\ web[p].html
          /\ is_same_domain(web[p].url, base_domain)
          /\ \E k \in 1..Len(web[p].hrefs) :
                LET link == normalize_url(urljoin(web[p].url, web[p].hrefs[k]))
                IN  /\ ~is_same_domain(link, base_domain)
                    /\ link \notin DOMAIN seen_urls

\* C17: main returns 1 exactly when the report holds an integer status in
\* [400, 600), or a size limit was given and a URL of the seed's domain is
\* larger than the limit, and returns 0 otherwise; no run ends with an
\* exception leaving main, a run with --max-size and a page over the limit
\* included.
ExpectedExit(args, report) ==
    LET seed == with_scheme(args.URL)
    IN  IF \/ \E u \in DOMAIN report :
                 /\ report[u].status_code[1] = "int"
                 /\ 400 <= report[u].status_code[2]
                 /\ report[u].status_code[2] < 600
           \/ /\ args.max_size # NoMaxSize
              /\ \E u \in DOMAIN report :
                    /\ is_same_domain(u, get_domain(seed))
                    /\ report[u].size > args.max_size
        THEN 1 ELSE 0

C17_ExitStatus ==
    cli.pc = "ended" => cli.outcome = MainReturns(ExpectedExit(cli.args, cli.report))

FrontierURLs == {to_process[i][1] : i \in 1..Len(to_process)}

\* C18: whenever crawl_site evaluates its while condition, the keys of
\* seen_urls are the keys of results together with the URLs of the frontier,
\* no URL is in both, and the frontier holds no URL twice; an entry of
\* seen_urls, once written, is never overwritten or deleted.
C18_VisitedPartition ==
    /\ [](pc = "loop" =>
            /\ DOMAIN seen_urls = DOMAIN results \cup FrontierURLs
            /\ DOMAIN results \cap FrontierURLs = {}
            /\ \A i, j \in 1..Len(to_process) :
                  to_process[i][1] = to_process[j][1] => i = j)
    /\ [][\A u \in DOMAIN seen_urls :
              u \in DOMAIN seen_urls' /\ seen_urls'[u] = seen_urls[u]]_vars

\* C18 witness: at a wave boundary after the second wave the frontier is not
\* empty, and a page of the results links to a URL that another page had
\* brought in before
C18_Witness ==
    /\ pc = "loop"
    /\ wave >= 2
    /\ to_process # <<>>
    /\ \E u \in DOMAIN results : \E k \in 1..Len(results[u].links) :
          /\ results[u].links[k][1] \in DOMAIN results
          /\ seen_urls[results[u].links[k][1]] # u
          /\ seen_urls[results[u].links[k][1]] # None

(***************************************************************************)
(* The reference: a sequential breadth-first search over the responses,    *)
(* level by level, with the crawl's scope and depth rules. It reads the    *)
(* responses, the seed and max_depth only.                                 *)
(***************************************************************************)
RefSeed == normalize_url(start_url)

\* a page is expanded as a page of the site when it is the seed or in the
\* seed's domain
RefTask(url, depth) ==
    <<url, base_domain, url = RefSeed \/ is_same_domain(url, base_domain), None, depth>>

\* what fetching url gives: nothing yet while the web has not answered
RefOutcome(url, depth) ==
    process_url(RefTask(url, depth), IF is_valid_url(url) THEN web[url] ELSE NoAnswer)

\* the URLs the page of url links to, as far as the crawl follows links
RefLinks(url, depth) ==
    IF is_valid_url(url) /\ url \notin DOMAIN web THEN {}
    ELSE IF RefOutcome(url, depth).raised THEN {}
    ELSE LinkTargets(RefOutcome(url, depth).data)

\* the levels of the search: levels[k + 1] holds the URLs at distance k
RECURSIVE RefLevels(_)
RefLevels(levels) ==
    LET depth == Len(levels) - 1
        reached == UNION {levels[k] : k \in 1..Len(levels)}
        next == UNION {RefLinks(u, depth) : u \in levels[Len(levels)]} \ reached
    IN  IF next = {} \/ (max_depth # NoDepthLimit /\ depth + 1 > max_depth)
        THEN levels
        ELSE RefLevels(Append(levels, next))

RefBFS == RefLevels(<<{RefSeed}>>)

\* the URLs the search reaches
KeysOf(levels) == UNION {levels[k] : k \in 1..Len(levels)}

\* the shortest link distance from the seed
DistanceIn(levels, url) == (CHOOSE k \in 1..Len(levels) : url \in levels[k]) - 1

RefDistance(url) == DistanceIn(RefBFS, url)

\* C19: with the responses fixed, the keys of the result mapping and each
\* key's status and size are what the responses, the seed and max_depth
\* determine, whatever the order in which the calls of a wave complete and
\* whatever max_workers is; the referrer is not so determined.
C19_OrderIndependent ==
    pc = "done" =>
        LET levels == RefBFS
        IN
        /\ DOMAIN results = KeysOf(levels)
        /\ \A u \in DOMAIN results :
              LET outcome == RefOutcome(u, DistanceIn(levels, u))
              IN  IF outcome.raised
                  THEN /\ results[u].status_code = StrStatus("error")
                       /\ results[u].size = 0
                  ELSE /\ results[u].status_code = outcome.data.status_code
                       /\ results[u].size = outcome.data.size

\* C19 witness: with two workers, two pages of one wave both linked to a new
\* URL, and the referrer recorded for it is the page submitted second
C19_Witness ==
    /\ pc = "done"
    /\ max_workers = 2
    /\ \E i, j \in 1..Len(submitted) :
          /\ i < j
          /\ submitted[i][5] = submitted[j][5]
          /\ \E u \in DOMAIN results :
                /\ u \in LinkTargets(results[submitted[i][1]])
                /\ u \in LinkTargets(results[submitted[j][1]])
                /\ results[u].referrer = submitted[j][1]
                /\ results[u].status_code = IntStatus(200)

\* C20: the crawl is a breadth-first search: every task is scheduled at the
\* depth that is its URL's shortest link distance from the seed, and when
\* crawl_site returns the keys of the result mapping are exactly the URLs
\* the reference search reaches within max_depth, none lost for having
\* been seen first on a longer path or turned away once for its depth.
C20_BreadthFirst ==
    LET levels == IF pc \in {"loop", "wave", "done"} THEN RefBFS ELSE <<>>
    IN  /\ \A i \in 1..Len(submitted) :
              /\ submitted[i][1] \in KeysOf(levels)
              /\ submitted[i][5] = DistanceIn(levels, submitted[i][1])
        /\ pc = "done" =>
              /\ KeysOf(levels) \subseteq DOMAIN results
              /\ DOMAIN results \subseteq KeysOf(levels)

\* C20 witness: under a depth limit the crawl returned, a page at the limit
\* linked to a URL that was turned away, and a URL within the limit was
\* linked both from the seed and from a deeper page
C20_Witness ==
    /\ pc = "done"
    /\ max_depth = 2
    /\ \E u \in DOMAIN results : \E k \in 1..Len(results[u].links) :
          /\ TooDeep(results[u].links[k])
          /\ results[u].links[k][1] \notin DOMAIN results
    /\ \E u, v \in DOMAIN results :
          /\ u # RefSeed
          /\ v \in LinkTargets(results[RefSeed]) \cap LinkTargets(results[u])
          /\ RefDistance(v) = 1

====
